---- MODULE Spec2Model ----
(***************************************************************************)
(* Model of rnccd (src/src/main.rs): a Namecheap dynamic DNS client.       *)
(* main() loads the state file, then loops: resolve the current address,   *)
(* update the provider when it differs from the belief (namecheap_addr),   *)
(* and write the state file when it differs from state.addr.  update_state *)
(* writes a temporary file and renames it over the state file.             *)
(***************************************************************************)
EXTENDS Integers, Sequences, FiniteSets, TLC

\* ---------------------------------------------------------------- bounds
NumAddrs == 2          \* number of distinct IPv4 addresses in the model
MaxBody == 4           \* longest provider response body, in tokens
MaxLate == 2           \* how far past its deadline the timer is followed

\* the period of the interval, in units of 30 seconds (the HTTP timeout)
Period == 2

\* ---------------------------------------------------------------- values
Addrs == {"ip" \o ToString(i) : i \in 1..NumAddrs}    \* Ipv4Addr values
None == "None"                              \* Option<Ipv4Addr>::None
OptAddrs == Addrs \cup {None}

\* what is at a path: nothing, something File::open cannot open, or a file
Absent == [kind |-> "absent", data |-> <<>>]
Unreadable == [kind |-> "unreadable", data |-> <<>>]
FileOf(content) == [kind |-> "file", data |-> content]
NoTmp == Absent                             \* no temporary file
ParseErr == "parse_error"
Garbage == <<"garbage">>                    \* a file that is not a State

\* serde_yaml::to_writer of State { addr }: "addr: null" or "addr: a.b.c.d"
Serialize(addr) == <<"addr:", IF addr = None THEN "null" ELSE addr>>

\* serde_yaml::from_reader::<State>: a mapping with the optional key addr
Deserialize(content) ==
    IF Len(content) = 1 /\ content[1] = "addr:" THEN None
    ELSE IF Len(content) = 2 /\ content[1] = "addr:" /\ content[2] = "null" THEN None
    ELSE IF Len(content) = 2 /\ content[1] = "addr:" /\ content[2] \in Addrs THEN content[2]
    ELSE ParseErr

\* Path::parent of the state path: None for the empty path
StatePaths == {"", "state.yaml"}
HasParent(path) == path /= ""

\* ------------------------------------------------------- resolver (ipify)
ResolverResponses ==
    [transport : {"ok", "send_err", "body_err"},
     status : {200, 500},
     body : Addrs \cup {"junk"}]

\* current_address: Ok(addr) or Err
current_address(resp) ==
    IF resp.transport = "send_err" THEN [ok |-> FALSE, res |-> "Err_transport", addr |-> None]
    ELSE IF resp.status /= 200 THEN [ok |-> FALSE, res |-> "Err_status", addr |-> None]
    ELSE IF resp.transport = "body_err" THEN [ok |-> FALSE, res |-> "Err_transport", addr |-> None]
    ELSE IF resp.body \notin Addrs THEN [ok |-> FALSE, res |-> "Err_parse", addr |-> None]
    ELSE [ok |-> TRUE, res |-> "Ok", addr |-> resp.body]

\* ------------------------------------------------- provider (update call)
Marker == <<"<ErrCount>", "0", "</ErrCount>">>
BodyTokens == {"<ErrCount>", "0", "1", "</ErrCount>"}
Bodies == UNION {[1..n -> BodyTokens] : n \in 0..MaxBody}

\* str::contains
Contains(body, pat) ==
    \E i \in 0..(Len(body) - Len(pat)) :
        \A j \in 1..Len(pat) : body[i + j] = pat[j]

UpdateResponses ==
    [transport : {"ok", "send_err", "body_err"},
     status : {200, 500},
     body : Bodies]

\* variant: a status other than 200 is an error too
update_address_checksStatus(resp) ==
    IF resp.transport /= "ok" THEN "Err_transport"
    ELSE IF resp.status /= 200 THEN "Err_rejected"
    ELSE IF Contains(resp.body, Marker) THEN "Ok"
    ELSE "Err_rejected"

\* update_address: Ok(()), or Err from the transport (send or body read),
\* or Err because the body lacks the marker; the status is not looked at
update_address(resp) ==
    IF resp.transport /= "ok" THEN "Err_transport"
    ELSE IF Contains(resp.body, Marker) THEN "Ok"
    ELSE "Err_rejected"

\* what update_address can return, over all responses
UpdateResults == {update_address(resp) : resp \in UpdateResponses}

\* ------------------------------------------------------------------ state
VARIABLES
    pc,              \* position of main(): start, client, idle, resolving,
                     \* updating, save_tmp, save_write, save_persist, save_ok,
                     \* aborted (panic), dead (killed)
    state_path,      \* args.state
    file,            \* what is at the state path on disk
    tmp,             \* the NamedTempFile of the save in progress (or a leftover)
    state_addr,      \* state.addr, the tracked last-persisted address
    namecheap_addr,  \* the belief about the provider's record
    current_addr,    \* the address resolved in this tick
    save_arg,        \* update_state's argument state.addr
    save_caller,     \* who called update_state: "startup" or "loop"
    last_save,       \* history: the last call of update_state, across restarts
    start_file,      \* history: the state file when the process started
    loaded,          \* history: the state file right after the startup load
    accepted,        \* history: addresses whose update call returned Ok in this run
    net_called,      \* history: a resolver or update call was made in this run
    tick,            \* history: what happened in the current tick
    interval_due,    \* time left until the interval's next deadline (<= 0: due)
    since_tick,      \* history: time since the last tick began, up to Period
    upd_resp,        \* CallSpec: the response given to a call of update_address
    upd_result,      \* CallSpec: what that call returned
    stable           \* LiveSpec: the address the resolver has settled on, with
                     \* update and persist succeeding from then on; None before

vars == <<pc, state_path, file, tmp, state_addr, namecheap_addr, current_addr,
          save_arg, save_caller, last_save, start_file, loaded, accepted,
          net_called, tick, interval_due, since_tick, upd_resp, upd_result,
          stable>>

mem == <<state_addr, namecheap_addr, current_addr>>
saveVars == <<save_arg, save_caller, last_save>>
hist == <<start_file, loaded, accepted, net_called, tick>>
timeVars == <<interval_due, since_tick>>
callVars == <<upd_resp, upd_result>>

\* no call of update_address on its own is being looked at
NoResp == [transport |-> "ok", status |-> 200, body |-> <<>>]

\* the history of a tick that has just begun; it remembers how the
\* previous tick's update and persist ended, the address of the last update
\* that returned Ok in this run (lastOk, and lastOk0 as it was when the tick
\* began) and whether an earlier tick of this run had a successful update
\* followed by a failed persist (everLag); late: the tick began past its
\* deadline; settled0, prevSettled: the network had settled (LiveSpec) when
\* this tick, the previous tick, began
NewTick ==
    [belief0 |-> namecheap_addr, state0 |-> state_addr, file0 |-> file,
     res |-> "none", upd |-> "none", updCalls |-> 0, updArg |-> None,
     persist |-> "none", persistCalls |-> 0, persistArg |-> None,
     prevUpd |-> tick.upd, prevPersist |-> tick.persist,
     prevPersistArg |-> tick.persistArg,
     started |-> TRUE, late |-> interval_due < 0,
     settled0 |-> stable /= None, prevSettled |-> tick.settled0,
     lastOk |-> tick.lastOk, lastOk0 |-> tick.lastOk,
     everLag |-> tick.everLag \/ (tick.upd = "Ok" /\ tick.persist \notin {"none", "Ok"})]

NoTick ==
    [belief0 |-> None, state0 |-> None, file0 |-> Absent,
     res |-> "none", upd |-> "none", updCalls |-> 0, updArg |-> None,
     persist |-> "none", persistCalls |-> 0, persistArg |-> None,
     prevUpd |-> "none", prevPersist |-> "none", prevPersistArg |-> None,
     started |-> FALSE, late |-> FALSE, settled0 |-> FALSE, prevSettled |-> FALSE,
     lastOk |-> None, lastOk0 |-> None, everLag |-> FALSE]

NoSave == [called |-> FALSE, old |-> Absent, new |-> None]
SaveOf(addr) == [called |-> TRUE, old |-> file, new |-> addr]

InitialFiles ==
    {Absent, Unreadable, FileOf(Garbage)} \cup {FileOf(Serialize(a)) : a \in OptAddrs}

Init ==
    /\ pc = "start"
    /\ state_path \in StatePaths
    /\ file \in InitialFiles
    /\ (state_path = "" => file = Absent)
    /\ tmp = NoTmp
    /\ state_addr = None /\ namecheap_addr = None /\ current_addr = None
    /\ save_arg = None /\ save_caller = "none" /\ last_save = NoSave
    /\ start_file = file
    /\ loaded = Absent /\ accepted = {} /\ net_called = FALSE
    /\ tick = NoTick
    /\ interval_due = 0 /\ since_tick = 0
    /\ upd_resp = NoResp /\ upd_result = "none"
    /\ stable = None

\* ---------------------------------------------------------------- startup
\* variant: an unparsable state file is replaced by the default state
LoadState_defaultOnBadFile ==
    /\ pc = "start"
    /\ CASE file.kind = "unreadable" ->
              /\ pc' = "aborted"
              /\ UNCHANGED <<mem, saveVars, loaded>>
         [] file.kind = "file" /\ Deserialize(file.data) /= ParseErr ->
              /\ pc' = "client"
              /\ state_addr' = Deserialize(file.data)
              /\ loaded' = file
              /\ UNCHANGED <<namecheap_addr, current_addr, saveVars>>
         [] OTHER ->
              /\ pc' = "save_tmp"
              /\ save_arg' = None
              /\ save_caller' = "startup"
              /\ last_save' = SaveOf(None)
              /\ UNCHANGED <<mem, loaded>>
    /\ UNCHANGED <<state_path, file, tmp, start_file, accepted, net_called, tick>>
    /\ UNCHANGED <<timeVars, callVars, stable>>

\* main, lines 64-74: File::open(&args.state) and the three match arms
LoadState ==
    /\ pc = "start"
    /\ CASE file.kind = "unreadable" ->
              /\ pc' = "aborted"
              /\ UNCHANGED <<mem, saveVars, loaded>>
         [] file.kind = "file" /\ Deserialize(file.data) = ParseErr ->
              /\ pc' = "aborted"
              /\ UNCHANGED <<mem, saveVars, loaded>>
         [] file.kind = "file" /\ Deserialize(file.data) /= ParseErr ->
              /\ pc' = "client"
              /\ state_addr' = Deserialize(file.data)
              /\ loaded' = file
              /\ UNCHANGED <<namecheap_addr, current_addr, saveVars>>
         [] file.kind = "absent" ->
              /\ pc' = "save_tmp"
              /\ save_arg' = None
              /\ save_caller' = "startup"
              /\ last_save' = SaveOf(None)
              /\ UNCHANGED <<mem, loaded>>
    /\ UNCHANGED <<state_path, file, tmp, start_file, accepted, net_called, tick>>
    /\ UNCHANGED <<timeVars, callVars, stable>>

\* variant: the belief starts as unknown instead of state.addr
BuildClient_beliefUnknown ==
    /\ pc = "client"
    /\ \E built \in BOOLEAN :
         IF built
         THEN /\ pc' = "idle"
              /\ namecheap_addr' = None
              /\ interval_due' = 0
              /\ since_tick' = 0
         ELSE /\ pc' = "aborted"
              /\ UNCHANGED <<namecheap_addr, timeVars>>
    /\ UNCHANGED <<state_path, file, tmp, state_addr, current_addr, saveVars, hist,
                   callVars, stable>>

\* main, lines 76-91: build the HTTP client, create the interval (its first
\* tick is due at once), seed the belief from state.addr
BuildClient ==
    /\ pc = "client"
    /\ \E built \in BOOLEAN :
         IF built
         THEN /\ pc' = "idle"
              /\ namecheap_addr' = state_addr
              /\ interval_due' = 0
              /\ since_tick' = 0
         ELSE /\ pc' = "aborted"
              /\ UNCHANGED <<namecheap_addr, timeVars>>
    /\ UNCHANGED <<state_path, file, tmp, state_addr, current_addr, saveVars, hist,
                   callVars, stable>>

\* ------------------------------------------------------------------- loop
\* variants of the two comparisons: the update branch never taken, or always
NeedsUpdate_never(cur, belief) == FALSE
NeedsUpdate_always(cur, belief) == TRUE

\* line 105
NeedsUpdate(cur, belief) == cur /= belief

\* variant: the persist branch is never taken
NeedsPersist_never(cur, persisted) == FALSE

\* line 119
NeedsPersist(cur, persisted) == cur /= persisted

\* variant: MissedTickBehavior::Burst, the next deadline stays on the old grid
MissedTick_burst(due) == due + Period

\* line 90, MissedTickBehavior::Delay: after a missed deadline the next one
\* is a full period after the moment the late tick fires
MissedTick(due) == Period

\* the interval's next deadline, relative to now, when tick() completes
NextDeadline(due) == IF due < 0 THEN MissedTick(due) ELSE due + Period

\* time passes while the loop waits or works
TimePass ==
    /\ \/ pc \in {"idle", "resolving", "updating"}
       \/ pc \in {"save_tmp", "save_write", "save_persist", "save_ok"}
             /\ save_caller = "loop"
    /\ interval_due > -MaxLate
    /\ interval_due' = interval_due - 1
    /\ since_tick' = IF since_tick < Period THEN since_tick + 1 ELSE since_tick
    /\ UNCHANGED <<pc, state_path, file, tmp, mem, saveVars, hist, callVars, stable>>

\* main, line 93: interval.tick() completes and a tick begins
Tick ==
    /\ pc = "idle"
    /\ interval_due <= 0
    /\ pc' = "resolving"
    /\ tick' = NewTick
    /\ interval_due' = NextDeadline(interval_due)
    /\ since_tick' = 0
    /\ UNCHANGED <<state_path, file, tmp, mem, saveVars, start_file, loaded, accepted,
                   net_called, callVars, stable>>

\* variant: the state file is written only in a tick that updated the provider
CheckPersist_onlyAfterUpdate(cur, tk) ==
    IF tk.upd = "Ok" /\ NeedsPersist(cur, state_addr)
    THEN /\ pc' = "save_tmp"
         /\ save_arg' = cur
         /\ save_caller' = "loop"
         /\ last_save' = SaveOf(cur)
         /\ tick' = [tk EXCEPT !.persistCalls = @ + 1, !.persistArg = cur]
    ELSE /\ pc' = "idle"
         /\ tick' = tk
         /\ UNCHANGED saveVars

\* variant: the persist is decided by comparing with the belief the tick
\* began with instead of state.addr
CheckPersist_comparesBelief(cur, tk) ==
    IF NeedsPersist(cur, tk.belief0)
    THEN /\ pc' = "save_tmp"
         /\ save_arg' = cur
         /\ save_caller' = "loop"
         /\ last_save' = SaveOf(cur)
         /\ tick' = [tk EXCEPT !.persistCalls = @ + 1, !.persistArg = cur]
    ELSE /\ pc' = "idle"
         /\ tick' = tk
         /\ UNCHANGED saveVars

\* main, lines 118-128 up to the call of update_state
CheckPersist(cur, tk) ==
    IF NeedsPersist(cur, state_addr)
    THEN /\ pc' = "save_tmp"
         /\ save_arg' = cur
         /\ save_caller' = "loop"
         /\ last_save' = SaveOf(cur)
         /\ tick' = [tk EXCEPT !.persistCalls = @ + 1, !.persistArg = cur]
    ELSE /\ pc' = "idle"
         /\ tick' = tk
         /\ UNCHANGED saveVars

\* variant: the resolver error is unwrapped and the process panics
ResolveErr_panics(r) ==
    /\ pc' = "aborted"
    /\ tick' = [tick EXCEPT !.res = r.res]
    /\ UNCHANGED <<current_addr, saveVars>>

\* main, lines 98-101: current_address returned Err; log and continue
ResolveErr(r) ==
    /\ pc' = "idle"
    /\ tick' = [tick EXCEPT !.res = r.res]
    /\ UNCHANGED <<current_addr, saveVars>>

\* main, lines 96-110 and 118-122: the resolver answers
Resolve ==
    /\ pc = "resolving"
    /\ \E resp \in ResolverResponses :
         LET r == current_address(resp) IN
         IF ~r.ok
         THEN ResolveErr(r)
         ELSE /\ current_addr' = r.addr
              /\ IF NeedsUpdate(r.addr, namecheap_addr)
                 THEN /\ pc' = "updating"
                      /\ tick' = [tick EXCEPT !.res = "Ok", !.updCalls = @ + 1,
                                              !.updArg = r.addr]
                      /\ UNCHANGED saveVars
                 ELSE CheckPersist(r.addr, [tick EXCEPT !.res = "Ok"])
    /\ net_called' = TRUE
    /\ UNCHANGED <<state_path, file, tmp, state_addr, namecheap_addr, start_file,
                   loaded, accepted>>
    /\ UNCHANGED <<timeVars, callVars, stable>>

\* variant: the update error is logged but the tick goes on to the persist
UpdateFail_fallthrough ==
    /\ pc = "updating"
    /\ \E res \in UpdateResults \ {"Ok"} :
         CheckPersist(current_addr, [tick EXCEPT !.upd = res])
    /\ net_called' = TRUE
    /\ UNCHANGED <<state_path, file, tmp, mem, start_file, loaded, accepted>>
    /\ UNCHANGED <<timeVars, callVars, stable>>

\* variant: a failed update is tried again at once, up to three calls a tick
UpdateFail_retriesNow ==
    /\ pc = "updating"
    /\ \E res \in UpdateResults \ {"Ok"} :
         IF tick.updCalls < 3
         THEN pc' = "updating" /\ tick' = [tick EXCEPT !.updCalls = @ + 1]
         ELSE pc' = "idle" /\ tick' = [tick EXCEPT !.upd = res]
    /\ net_called' = TRUE
    /\ UNCHANGED <<state_path, file, tmp, mem, saveVars, start_file, loaded, accepted>>
    /\ UNCHANGED <<timeVars, callVars, stable>>

\* main, lines 111-114: update_address returned Err; log and continue
UpdateFail ==
    /\ pc = "updating"
    /\ \E res \in UpdateResults \ {"Ok"} :
         tick' = [tick EXCEPT !.upd = res]
    /\ pc' = "idle"
    /\ net_called' = TRUE
    /\ UNCHANGED <<state_path, file, tmp, mem, saveVars, start_file, loaded, accepted>>
    /\ UNCHANGED <<timeVars, callVars, stable>>

\* variant: the belief is not updated after a successful update
UpdateOk_keepsBelief ==
    /\ pc = "updating"
    /\ "Ok" \in UpdateResults
    /\ accepted' = accepted \cup {current_addr}
    /\ CheckPersist(current_addr, [tick EXCEPT !.upd = "Ok", !.lastOk = current_addr])
    /\ net_called' = TRUE
    /\ UNCHANGED <<state_path, file, tmp, mem, start_file, loaded>>
    /\ UNCHANGED <<timeVars, callVars, stable>>

\* main, lines 111-122: update_address returned Ok; the belief is updated
UpdateOk ==
    /\ pc = "updating"
    /\ "Ok" \in UpdateResults
    /\ namecheap_addr' = current_addr
    /\ accepted' = accepted \cup {current_addr}
    /\ CheckPersist(current_addr, [tick EXCEPT !.upd = "Ok", !.lastOk = current_addr])
    /\ net_called' = TRUE
    /\ UNCHANGED <<state_path, file, tmp, state_addr, current_addr, start_file, loaded>>
    /\ UNCHANGED <<timeVars, callVars, stable>>

\* ----------------------------------------------------------- update_state
\* variant: a failed persist puts the belief back to what it was at the
\* start of the tick
SaveErr_rollsBackBelief(kind) ==
    /\ IF save_caller = "startup"
       THEN pc' = "aborted" /\ UNCHANGED <<tick, namecheap_addr>>
       ELSE /\ pc' = "idle"
            /\ tick' = [tick EXCEPT !.persist = kind]
            /\ namecheap_addr' = tick.belief0
    /\ UNCHANGED <<state_path, file, state_addr, current_addr, saveVars, start_file,
                   loaded, accepted, net_called>>

\* variant: the loop adopts the new state although the save failed
SaveErr_advances(kind) ==
    /\ IF save_caller = "startup"
       THEN pc' = "aborted" /\ UNCHANGED tick
       ELSE pc' = "idle" /\ tick' = [tick EXCEPT !.persist = kind]
    /\ state_addr' = save_arg
    /\ UNCHANGED <<state_path, file, namecheap_addr, current_addr, saveVars, start_file,
                   loaded, accepted, net_called>>

\* variant: a failed initial save is ignored and startup goes on
SaveErr_startupContinues(kind) ==
    /\ IF save_caller = "startup"
       THEN pc' = "client" /\ UNCHANGED tick
       ELSE pc' = "idle" /\ tick' = [tick EXCEPT !.persist = kind]
    /\ UNCHANGED <<state_path, file, mem, saveVars, start_file, loaded, accepted,
                   net_called>>

\* what the caller does with Err: expect() panics at startup (line 70),
\* the loop logs and continues (lines 123-126)
SaveErr(kind) ==
    /\ IF save_caller = "startup"
       THEN pc' = "aborted" /\ UNCHANGED tick
       ELSE pc' = "idle" /\ tick' = [tick EXCEPT !.persist = kind]
    /\ UNCHANGED <<state_path, file, mem, saveVars, start_file, loaded, accepted,
                   net_called>>

\* update_state, lines 170-177: parent directory and NamedTempFile::new_in
SaveCreateTemp ==
    /\ pc = "save_tmp"
    /\ \E created \in BOOLEAN :
         IF HasParent(state_path) /\ created
         THEN /\ pc' = "save_write"
              /\ tmp' = FileOf(<<>>)
              /\ UNCHANGED <<state_path, file, mem, saveVars, hist>>
         ELSE /\ tmp' = tmp
              /\ SaveErr("Err_tmp")
    /\ UNCHANGED <<timeVars, callVars, stable>>

\* variant: the new content is written straight into the state file
SaveWrite_inPlace ==
    /\ pc = "save_write"
    /\ LET full == Serialize(save_arg)
           next == Append(tmp.data, full[Len(tmp.data) + 1]) IN
         /\ tmp' = FileOf(next)
         /\ file' = FileOf(next)
         /\ pc' = IF next = full THEN "save_persist" ELSE "save_write"
    /\ UNCHANGED <<state_path, mem, saveVars, hist>>
    /\ UNCHANGED <<timeVars, callVars, stable>>

\* update_state, line 178: serde_yaml::to_writer writes the next piece
SaveWrite ==
    /\ pc = "save_write"
    /\ LET full == Serialize(save_arg)
           next == Append(tmp.data, full[Len(tmp.data) + 1]) IN
         /\ tmp' = FileOf(next)
         /\ pc' = IF next = full THEN "save_persist" ELSE "save_write"
    /\ UNCHANGED <<state_path, file, mem, saveVars, hist>>
    /\ UNCHANGED <<timeVars, callVars, stable>>

\* update_state, line 178: the write fails; the temporary file is dropped
SaveWriteFail ==
    /\ pc = "save_write"
    /\ tmp' = NoTmp
    /\ SaveErr("Err_write")
    /\ UNCHANGED <<timeVars, callVars, stable>>

\* update_state, line 179: persist renames the temporary file over the target
SavePersist ==
    /\ pc = "save_persist"
    /\ file' = tmp
    /\ tmp' = NoTmp
    /\ pc' = "save_ok"
    /\ UNCHANGED <<state_path, mem, saveVars, hist>>
    /\ UNCHANGED <<timeVars, callVars, stable>>

\* variant: the error of the rename is dropped and update_state returns Ok
SavePersistFail_swallowed ==
    /\ pc = "save_persist"
    /\ tmp' = NoTmp
    /\ pc' = "save_ok"
    /\ UNCHANGED <<state_path, file, mem, saveVars, hist>>
    /\ UNCHANGED <<timeVars, callVars, stable>>

\* variant: the replace is not atomic; it fails after emptying the target
SavePersistFail_replaced ==
    /\ pc = "save_persist"
    /\ tmp' = NoTmp
    /\ IF save_caller = "startup"
       THEN pc' = "aborted" /\ UNCHANGED tick
       ELSE pc' = "idle" /\ tick' = [tick EXCEPT !.persist = "Err_rename"]
    /\ file' = FileOf(<<>>)
    /\ UNCHANGED <<state_path, mem, saveVars, start_file, loaded, accepted, net_called>>
    /\ UNCHANGED <<timeVars, callVars, stable>>

\* update_state, line 179: the rename fails; the temporary file is dropped
SavePersistFail ==
    /\ pc = "save_persist"
    /\ tmp' = NoTmp
    /\ SaveErr("Err_rename")
    /\ UNCHANGED <<timeVars, callVars, stable>>

\* variant: the loop forgets to adopt new_state after a successful save
SaveReturn_keepsState ==
    /\ pc = "save_ok"
    /\ IF save_caller = "startup"
       THEN /\ pc' = "client"
            /\ state_addr' = save_arg
            /\ loaded' = file
            /\ UNCHANGED tick
       ELSE /\ pc' = "idle"
            /\ state_addr' = state_addr
            /\ tick' = [tick EXCEPT !.persist = "Ok"]
            /\ UNCHANGED loaded
    /\ UNCHANGED <<state_path, file, tmp, namecheap_addr, current_addr, saveVars,
                   start_file, accepted, net_called>>
    /\ UNCHANGED <<timeVars, callVars, stable>>

\* update_state returns Ok: lines 71-72 at startup, line 127 in the loop
SaveReturn ==
    /\ pc = "save_ok"
    /\ IF save_caller = "startup"
       THEN /\ pc' = "client"
            /\ state_addr' = save_arg
            /\ loaded' = file
            /\ UNCHANGED tick
       ELSE /\ pc' = "idle"
            /\ state_addr' = save_arg
            /\ tick' = [tick EXCEPT !.persist = "Ok"]
            /\ UNCHANGED loaded
    /\ UNCHANGED <<state_path, file, tmp, namecheap_addr, current_addr, saveVars,
                   start_file, accepted, net_called>>
    /\ UNCHANGED <<timeVars, callVars, stable>>

\* ------------------------------------------------------------ environment
\* the process is terminated (no graceful shutdown); files stay as they are
Kill ==
    /\ pc \notin {"aborted", "dead"}
    /\ pc' = "dead"
    /\ UNCHANGED <<state_path, file, tmp, mem, saveVars, hist>>
    /\ UNCHANGED <<timeVars, callVars, stable>>

\* the process is started again on the same files
Restart ==
    /\ pc \in {"aborted", "dead"}
    /\ pc' = "start"
    /\ state_addr' = None /\ namecheap_addr' = None /\ current_addr' = None
    /\ save_arg' = None /\ save_caller' = "none"
    /\ start_file' = file
    /\ loaded' = Absent /\ accepted' = {} /\ net_called' = FALSE
    /\ tick' = NoTick
    /\ interval_due' = 0 /\ since_tick' = 0
    /\ UNCHANGED <<state_path, file, tmp, last_save, callVars, stable>>

Next ==
    \/ LoadState
    \/ BuildClient
    \/ TimePass
    \/ Tick
    \/ Resolve
    \/ UpdateFail
    \/ UpdateOk
    \/ SaveCreateTemp
    \/ SaveWrite
    \/ SaveWriteFail
    \/ SavePersist
    \/ SavePersistFail
    \/ SaveReturn
    \/ Kill
    \/ Restart

Spec == Init /\ [][Next]_vars

\* ------------------------------------------- the loop in a settled network
LoopPcs == {"idle", "resolving", "updating",
            "save_tmp", "save_write", "save_persist", "save_ok"}

\* the process is in the loop of lines 92-129
InLoop == pc \in LoopPcs /\ (pc \in {"idle", "resolving", "updating"} \/ save_caller = "loop")

\* from now on the resolver answers with one address and the update and
\* persist calls succeed; the moment is taken between two ticks (a tick under
\* way ends in a way it could also end in a network that settles after it)
Stabilize ==
    /\ stable = None
    /\ pc = "idle"
    /\ \E a \in Addrs : stable' = a
    /\ UNCHANGED <<pc, state_path, file, tmp, mem, saveVars, hist, timeVars,
                   upd_resp, upd_result>>

LiveResolve == Resolve /\ (stable /= None => tick'.res = "Ok" /\ current_addr' = stable)
LiveUpdateFail == stable = None /\ UpdateFail
LiveSaveCreateTemp == SaveCreateTemp /\ (stable /= None => pc' = "save_write")
LiveSaveWriteFail == stable = None /\ SaveWriteFail
LiveSavePersistFail == stable = None /\ SavePersistFail

\* a step of the process itself
ProcessStep ==
    \/ LoadState
    \/ BuildClient
    \/ Tick
    \/ LiveResolve
    \/ LiveUpdateFail
    \/ UpdateOk
    \/ LiveSaveCreateTemp
    \/ SaveWrite
    \/ LiveSaveWriteFail
    \/ SavePersist
    \/ LiveSavePersistFail
    \/ SaveReturn

LiveNext ==
    \/ ProcessStep
    \/ TimePass
    \/ Stabilize

\* one run of the process, not killed: the runtime keeps driving the task and
\* every call returns (30 s timeout); time does not stop
LiveSpec ==
    /\ Init
    /\ [][LiveNext]_vars
    /\ WF_vars(ProcessStep)
    /\ WF_vars(TimePass)

\* ------------------------------------------------- update_address by itself
\* the process is about to call update_address with some response to come
InitCall ==
    /\ pc = "call"
    /\ upd_resp \in UpdateResponses
    /\ upd_result = "none"
    /\ state_path = "state.yaml" /\ file = Absent /\ tmp = NoTmp
    /\ state_addr = None /\ namecheap_addr = None /\ current_addr = None
    /\ save_arg = None /\ save_caller = "none" /\ last_save = NoSave
    /\ start_file = Absent /\ loaded = Absent /\ accepted = {} /\ net_called = FALSE
    /\ tick = NoTick
    /\ interval_due = 0 /\ since_tick = 0
    /\ stable = None

\* update_address, lines 147-167, applied to the response
CallUpdate ==
    /\ pc = "call"
    /\ upd_result' = update_address(upd_resp)
    /\ pc' = "returned"
    /\ UNCHANGED <<state_path, file, tmp, mem, saveVars, hist, timeVars, upd_resp, stable>>

NextCall == CallUpdate

CallSpec == InitCall /\ [][NextCall]_vars

TypeOK ==
    /\ state_addr \in OptAddrs /\ namecheap_addr \in OptAddrs
    /\ current_addr \in OptAddrs /\ save_arg \in OptAddrs
    /\ accepted \subseteq Addrs

\* ------------------------------------------------------------ properties
UpdateErrs == {"Err_transport", "Err_rejected"}
ResolveErrs == {"Err_transport", "Err_status", "Err_parse"}
PersistErrs == {"Err_tmp", "Err_write", "Err_rename"}

\* the startup load of this run has completed
Loaded == loaded.kind = "file"

\* C1: once the startup load is done, the state file holds either what it
\* held right after the load or the serialisation of an address whose update
\* call has already returned Ok in this run.
C1_NoSpeculativePersist ==
    Loaded =>
        /\ file.kind = "file"
        /\ \/ file = loaded
           \/ \E a \in accepted : file = FileOf(Serialize(a))

\* the loop has written an accepted address over the loaded file
C1_Witness ==
    /\ Loaded /\ pc = "idle"
    /\ file /= loaded
    /\ Deserialize(file.data) \in accepted

\* C2: in a tick whose resolved address equals the belief the tick began
\* with, no update call is issued, whatever the persisted state is.
C2_NoUpdateWhenBeliefMatches ==
    (tick.res = "Ok" /\ current_addr = tick.belief0) =>
        /\ tick.updCalls = 0
        /\ tick.upd = "none"
        /\ pc /= "updating"

\* a finished tick that resolved the belief while the persisted state differed
C2_Witness ==
    /\ pc = "idle"
    /\ tick.res = "Ok" /\ current_addr = tick.belief0
    /\ tick.state0 /= current_addr
    /\ tick.updCalls = 0

\* C3: in a tick that resolves A1 different from the belief B0, exactly one
\* update call is issued and it carries A1; when it succeeds the belief is
\* A1, and when the persist of the tick succeeds too the tracked persisted
\* value and the state file are A1.
C3_DriftUpdate ==
    (tick.res = "Ok" /\ current_addr /= tick.belief0) =>
        /\ tick.updCalls = 1
        /\ tick.updArg = current_addr
        /\ (tick.upd = "Ok" => namecheap_addr = current_addr)
        /\ (tick.upd = "Ok" /\ tick.persist = "Ok" =>
               /\ state_addr = current_addr
               /\ file = FileOf(Serialize(current_addr))
               /\ Deserialize(file.data) = current_addr)
        /\ (tick.persistCalls > 0 => tick.upd = "Ok")

\* a finished tick that moved the belief and the file from one address to another
C3_Witness ==
    /\ pc = "idle"
    /\ tick.res = "Ok" /\ tick.belief0 \in Addrs /\ current_addr /= tick.belief0
    /\ tick.upd = "Ok" /\ tick.persist = "Ok"
    /\ tick.file0 /= file

\* C4: after a failed update call (transport failure or rejection body) the
\* tick is over: belief, tracked persisted value and state file are as at
\* the start of the tick, no persist call was made, the loop waits for the
\* next tick; and a tick following a failed update issues the update again
\* when its resolved address differs from the belief.
C4_UpdateFailureAbandons ==
    /\ tick.upd \in UpdateErrs =>
          /\ pc \in {"idle", "dead"}
          /\ namecheap_addr = tick.belief0
          /\ state_addr = tick.state0
          /\ file = tick.file0
          /\ tick.persistCalls = 0
    /\ (tick.prevUpd \in UpdateErrs /\ tick.res = "Ok"
           /\ current_addr /= tick.belief0) =>
          /\ tick.updCalls = 1
          /\ tick.updArg = current_addr

\* a tick abandoned on a rejection body, after a tick abandoned on a failed update
C4_Witness ==
    /\ pc = "idle"
    /\ tick.upd = "Err_rejected"
    /\ tick.prevUpd \in UpdateErrs
    /\ tick.state0 /= tick.belief0

\* C5: after a failed resolve the tick is over without an update call or a
\* persist call, belief, tracked persisted value and state file are as at
\* the start of the tick, and the loop waits for the next tick.
C5_ResolverFailureIsolated ==
    tick.res \in ResolveErrs =>
        /\ pc \in {"idle", "dead"}
        /\ tick.updCalls = 0 /\ tick.upd = "none"
        /\ tick.persistCalls = 0 /\ tick.persist = "none"
        /\ namecheap_addr = tick.belief0
        /\ state_addr = tick.state0
        /\ file = tick.file0

\* a tick abandoned on a resolver failure while belief and file disagree
C5_Witness ==
    /\ pc = "idle"
    /\ tick.res = "Err_status"
    /\ namecheap_addr /= state_addr

\* C6: in a tick that begins with the belief A1 and the persisted state
\* A0 /= A1 and that resolves A1, no update call is issued, one persist call
\* for A1 is issued, and when it succeeds the persisted state is A1.
C6_DecoupledPersistence ==
    (/\ tick.res = "Ok"
     /\ current_addr = tick.belief0
     /\ tick.state0 /= current_addr) =>
        /\ tick.updCalls = 0
        /\ tick.persistCalls = 1
        /\ tick.persistArg = current_addr
        /\ (tick.persist = "Ok" =>
               /\ state_addr = current_addr
               /\ file = FileOf(Serialize(current_addr))
               /\ Deserialize(file.data) = current_addr)

\* such a tick has finished: the file went from A0 to A1 without an update call
C6_Witness ==
    /\ pc = "idle"
    /\ tick.res = "Ok" /\ current_addr = tick.belief0
    /\ tick.state0 \in Addrs /\ tick.state0 /= current_addr
    /\ tick.file0 = FileOf(Serialize(tick.state0))
    /\ tick.prevPersist \in PersistErrs
    /\ tick.updCalls = 0 /\ tick.persist = "Ok"
    /\ file = FileOf(Serialize(current_addr))

\* C7: from the moment update_state is called, in every state (also after
\* the process was killed, and after it was started again) the state file
\* is exactly what it was when the save began or exactly the complete new
\* content, and a load after a restart yields one of these two values.
C7_CrashSafeSave ==
    last_save.called =>
        /\ \/ file = last_save.old
           \/ file = FileOf(Serialize(last_save.new))
        /\ (file.kind = "file" => Deserialize(file.data) /= ParseErr)
        /\ (pc = "client" =>
               \/ state_addr = last_save.new
               \/ /\ last_save.old.kind = "file"
                  /\ state_addr = Deserialize(last_save.old.data))

\* the process was killed in the middle of the temporary write, started
\* again, and has loaded the previous address
C7_Witness ==
    /\ pc = "client"
    /\ last_save.called /\ save_caller = "none"
    /\ tmp.kind = "file" /\ tmp.data /= Serialize(last_save.new)
    /\ file = last_save.old
    /\ state_addr \in Addrs /\ state_addr /= last_save.new

\* C8: after a save of the loop failed (temporary file, write or replace)
\* the state file and the tracked persisted value are as at the start of
\* the tick and the loop waits for the next tick; a failed initial save
\* leaves no state file; and a tick that follows a failed persist and
\* resolves the same address calls the persist again.
C8_SaveFailureKeepsOldFile ==
    /\ tick.persist \in PersistErrs =>
          /\ pc \in {"idle", "dead"}
          /\ file = tick.file0
          /\ state_addr = tick.state0
          /\ state_addr /= tick.persistArg
    /\ (pc = "aborted" /\ save_caller = "startup" /\ ~Loaded) => file = start_file
    /\ (/\ tick.prevPersist \in PersistErrs
        /\ tick.res = "Ok"
        /\ current_addr = tick.prevPersistArg) =>
          /\ tick.updCalls = 0
          /\ tick.persistCalls = 1
          /\ tick.persistArg = current_addr

\* a persist that failed at the replace, retried after an earlier failure
C8_Witness ==
    /\ pc = "idle"
    /\ tick.persist = "Err_rename"
    /\ tick.prevPersist \in PersistErrs
    /\ tick.persistArg = tick.prevPersistArg
    /\ file = tick.file0 /\ file.kind = "file"

\* C9: in a run that found no state file, the default state is on disk and
\* in memory before any resolver or update call; a process that aborted made
\* no such call.
C9_FirstRunBootstrap ==
    /\ (start_file.kind = "absent" /\ pc \in {"client", "idle", "resolving"}
           /\ ~net_called) =>
          /\ file = FileOf(Serialize(None))
          /\ state_addr = None
    /\ (start_file.kind = "absent" /\ net_called) =>
          loaded = FileOf(Serialize(None))
    /\ pc = "aborted" => ~net_called

\* the first resolver call of a first run is about to be made
C9_Witness ==
    /\ start_file.kind = "absent"
    /\ pc = "resolving" /\ ~net_called
    /\ file = FileOf(Serialize(None))
    /\ namecheap_addr = None

\* C10 as stated: after any failed step of a tick, belief, tracked persisted
\* value and state file are as at the start of the tick.
C10_Original ==
    (tick.res \in ResolveErrs \/ tick.upd \in UpdateErrs
        \/ tick.persist \in PersistErrs) =>
        /\ namecheap_addr = tick.belief0
        /\ state_addr = tick.state0
        /\ file = tick.file0

\* C10 amended: after any failed step of a tick the tracked persisted value
\* and the state file are as at the start of the tick; the belief is too
\* when the resolve or the update failed, and after a successful update
\* followed by a failed persist the belief is the resolved address.
C10_FailedTickFrame ==
    (tick.res \in ResolveErrs \/ tick.upd \in UpdateErrs
        \/ tick.persist \in PersistErrs) =>
        /\ state_addr = tick.state0
        /\ file = tick.file0
        /\ (tick.res \in ResolveErrs \/ tick.upd \in UpdateErrs) =>
              namecheap_addr = tick.belief0
        /\ (tick.upd = "none" /\ tick.persist \in PersistErrs) =>
              namecheap_addr = tick.belief0
        /\ (tick.upd = "Ok" /\ tick.persist \in PersistErrs) =>
              /\ namecheap_addr = current_addr
              /\ namecheap_addr /= tick.belief0

\* a tick whose update succeeded and whose persist failed
C10_Witness ==
    /\ pc = "idle"
    /\ tick.upd = "Ok" /\ tick.persist \in PersistErrs
    /\ namecheap_addr /= tick.belief0
    /\ state_addr = tick.state0

\* C11: in a tick that resolves the address A of the last update that
\* returned Ok in this run, no update call is issued, however the persists
\* went; the tick only calls the persist for A when the tracked persisted
\* value is not A yet.
C11_NoDuplicateUpdate ==
    (/\ tick.res = "Ok"
     /\ tick.lastOk0 \in Addrs
     /\ current_addr = tick.lastOk0) =>
        /\ tick.updCalls = 0
        /\ tick.upd = "none"
        /\ (tick.state0 /= current_addr =>
               tick.persistCalls = 1 /\ tick.persistArg = current_addr)
        /\ (tick.state0 = current_addr => tick.persistCalls = 0)

\* the persist of the accepted address failed in the previous tick and again
\* in this one, and no second update was issued
C11_Witness ==
    /\ pc = "idle"
    /\ tick.res = "Ok" /\ tick.lastOk0 \in Addrs /\ current_addr = tick.lastOk0
    /\ tick.everLag
    /\ tick.prevPersist \in PersistErrs /\ tick.persist \in PersistErrs
    /\ tick.updCalls = 0 /\ tick.persistCalls = 1

\* C12: once a persist of the loop has returned Ok, and until the next tick
\* begins, the belief, the tracked persisted value and the state file are
\* all the address resolved in that tick.
C12_ConvergeOnPersist ==
    tick.persist = "Ok" =>
        /\ namecheap_addr = current_addr
        /\ state_addr = current_addr
        /\ file = FileOf(Serialize(current_addr))
        /\ Deserialize(file.data) = namecheap_addr

\* belief and disk differed when the tick began and agree after its persist
C12_Witness ==
    /\ pc = "idle"
    /\ tick.persist = "Ok"
    /\ tick.belief0 /= tick.state0
    /\ tick.belief0 = current_addr
    /\ namecheap_addr = state_addr

\* C13: a tick begins only from the idle loop (the previous tick has run
\* to its end or to its abandon point), only when the interval is due, and,
\* except for the first tick of a run, no sooner than a full period after the
\* previous tick began, also when that tick overran its deadline.
C13_NoOverlapNoBurst ==
    [][(pc' = "resolving" /\ pc /= "resolving") =>
          /\ pc = "idle"
          /\ interval_due <= 0
          /\ interval_due' > 0
          /\ (tick.started => since_tick >= Period)]_vars

\* a tick that began past its deadline, after an overrunning tick, and is
\* itself followed by a full period
C13_Witness ==
    /\ pc = "resolving"
    /\ tick.late
    /\ tick.prevUpd /= "none"
    /\ since_tick = 0
    /\ interval_due = Period

\* the body holds the three tokens of the marker next to each other
HasMarker(body) ==
    \E i \in 1..Len(body) :
        i + Len(Marker) - 1 <= Len(body) /\ SubSeq(body, i, i + Len(Marker) - 1) = Marker

\* C14: update_address returns Ok exactly when request and body were
\* transported without error and the body holds the marker
\* <ErrCount>0</ErrCount>; everything else is an error, whatever the status.
C14_UpdateSuccessIffMarker ==
    pc = "returned" =>
        /\ upd_result \in {"Ok"} \cup UpdateErrs
        /\ upd_result = "Ok" <=>
              (upd_resp.transport = "ok" /\ HasMarker(upd_resp.body))
        /\ upd_resp.transport /= "ok" => upd_result = "Err_transport"
        /\ upd_resp.body = <<>> => upd_result /= "Ok"

\* Ok for a non-200 response whose body holds the marker after other text
C14_Witness ==
    /\ pc = "returned"
    /\ upd_result = "Ok"
    /\ upd_resp.status = 500
    /\ Len(upd_resp.body) > Len(Marker)
    /\ upd_resp.body[1] /= Marker[1]

\* the state file of this run exists but cannot be opened or parsed
BadStateFile ==
    \/ start_file.kind = "unreadable"
    \/ start_file.kind = "file" /\ Deserialize(start_file.data) = ParseErr

\* C15: a run that finds a state file it cannot open or parse never leaves
\* startup: it aborts, the loop is not entered, no resolver or update call
\* is made, and the state file stays as it was.
C15_BadStateFileAborts ==
    BadStateFile =>
        /\ pc \in {"start", "aborted", "dead"}
        /\ ~net_called
        /\ ~tick.started
        /\ ~Loaded
        /\ file = start_file
        /\ tmp = NoTmp

\* the process has aborted on an unparsable state file
C15_Witness ==
    /\ pc = "aborted"
    /\ start_file = FileOf(Garbage)
    /\ file = FileOf(Garbage)

\* belief, tracked persisted value and state file are the settled address,
\* and no tick that resolved another address earlier is still under way
Converged ==
    /\ stable /= None
    /\ namecheap_addr = stable
    /\ state_addr = stable
    /\ file = FileOf(Serialize(stable))
    /\ pc \in {"idle", "resolving"} \/ current_addr = stable

\* C16: once the resolver has settled on an address A and update and
\* persist calls succeed, the loop eventually has belief, tracked persisted
\* value and state file all equal to A; from then on they stay so and no
\* step issues an update or a persist call; and the loop never leaves
\* lines 92-129 by itself.
C16_Convergence ==
    /\ (stable /= None) ~> Converged
    /\ [][Converged =>
            /\ Converged'
            /\ tick'.updCalls <= tick.updCalls
            /\ tick'.persistCalls <= tick.persistCalls]_vars
    /\ [][InLoop => InLoop']_vars

\* after the network settled, and after an earlier failed persist, a tick
\* converged by an update and a persist, and the next tick made no call
C16_Witness ==
    /\ Converged
    /\ pc = "idle"
    /\ tick.res = "Ok" /\ tick.updCalls = 0 /\ tick.persistCalls = 0
    /\ tick.prevSettled /\ tick.everLag
    /\ tick.prevUpd = "Ok" /\ tick.prevPersist = "Ok"

\* what has happened in the tick so far is in the order resolve, update, persist
TickOrdered ==
    /\ tick.updCalls <= 1 /\ tick.persistCalls <= 1
    /\ (pc = "resolving" =>
           tick.res = "none" /\ tick.updCalls = 0 /\ tick.persistCalls = 0)
    /\ (tick.updCalls > 0 => tick.res = "Ok")
    /\ (pc = "updating" =>
           tick.updCalls = 1 /\ tick.upd = "none" /\ tick.persistCalls = 0)
    /\ (tick.persistCalls > 0 =>
           /\ tick.res = "Ok"
           /\ (current_addr /= tick.belief0 => tick.upd = "Ok")
           /\ (tick.updCalls > 0 => tick.upd = "Ok"))

\* C17: in every tick the resolver is answered once and first, an update
\* call is made at most once and only after a successful resolve, a persist
\* call is made at most once and only after a successful resolve and, when
\* the resolved address differed from the belief, after a successful update;
\* and in the loop the belief changes only in the step in which the update
\* returns Ok, before any persist call of the tick.
C17_StepOrder ==
    /\ []TickOrdered
    /\ [][(tick'.res /= tick.res /\ tick'.res /= "none") =>
             (pc = "resolving" /\ tick.res = "none")]_vars
    /\ [][(InLoop /\ namecheap_addr' /= namecheap_addr) =>
             /\ pc = "updating"
             /\ tick.upd = "none" /\ tick'.upd = "Ok"
             /\ tick.persistCalls = 0
             /\ namecheap_addr' = current_addr]_vars

\* a tick that went through all three steps is writing its temporary file
C17_Witness ==
    /\ pc = "save_write"
    /\ save_caller = "loop"
    /\ tick.res = "Ok" /\ tick.upd = "Ok"
    /\ tick.updCalls = 1 /\ tick.persistCalls = 1
    /\ namecheap_addr /= tick.belief0

\* the address loaded from the state file at startup
LoadedAddr == Deserialize(loaded.data)

\* C18: when the loop starts the belief is the loaded address; as long as no
\* update has returned Ok in this run, a tick with a successful resolve
\* issues an update call exactly when the resolved address differs from the
\* loaded one (always when that is unknown), the call carries the resolved
\* address, and after its success the persist for that address is called and,
\* when it succeeds, the state file holds it. This covers a restart after a
\* kill between the provider's acceptance of A and the persist of A.
C18_BeliefSeededFromDisk ==
    /\ (pc = "idle" /\ ~tick.started) =>
          namecheap_addr = LoadedAddr /\ state_addr = LoadedAddr
    /\ (Loaded /\ tick.started /\ tick.lastOk0 = None) =>
          /\ tick.belief0 = LoadedAddr
          /\ tick.state0 = LoadedAddr
          /\ tick.res = "Ok" =>
                /\ tick.updCalls = 1 <=> current_addr /= LoadedAddr
                /\ LoadedAddr = None => tick.updCalls = 1
                /\ tick.updCalls = 1 => tick.updArg = current_addr
                /\ tick.upd = "Ok" =>
                      tick.persistCalls = 1 /\ tick.persistArg = current_addr
                /\ tick.persist = "Ok" => file = FileOf(Serialize(current_addr))

\* an earlier run called the persist for A and was killed before the file
\* changed; this run loaded the old address, resolved A and is updating again
C18_Witness ==
    /\ pc = "updating"
    /\ save_caller = "none" /\ start_file.kind = "file"
    /\ last_save.called /\ last_save.new = current_addr
    /\ file = last_save.old /\ LoadedAddr \in Addrs
    /\ tick.lastOk0 = None
    /\ tick.updCalls = 1 /\ tick.updArg = current_addr

\* C19: outside update_state, state.addr is the address stored in the state
\* file; it changes only at the startup load, to what the file holds, and
\* when update_state has returned Ok, to the address just written.
C19_TrackedMatchesFile ==
    /\ [](pc \in {"client", "idle", "resolving", "updating"} =>
             /\ file.kind = "file"
             /\ Deserialize(file.data) = state_addr)
    /\ [][state_addr' /= state_addr =>
             \/ pc = "start" /\ state_addr' = Deserialize(file.data)
             \/ /\ pc = "save_ok"
                /\ state_addr' = save_arg
                /\ file = FileOf(Serialize(save_arg))
             \/ pc' = "start"]_vars

\* the loop has replaced the loaded address after a save, while the belief
\* is ahead of both
C19_Witness ==
    /\ pc = "idle"
    /\ state_addr \in Addrs /\ LoadedAddr \in Addrs
    /\ state_addr /= LoadedAddr
    /\ Deserialize(file.data) = state_addr
    /\ namecheap_addr /= state_addr

\* a persist of this run has failed after a successful update
Lagged == tick.everLag \/ (tick.upd = "Ok" /\ tick.persist \in PersistErrs)

\* C20: at a tick boundary the belief differs from the tracked persisted
\* value and from the state file only if, in this run, a persist failed
\* after a successful update; in a run without a failed persist they agree
\* at every tick boundary.
C20_DivergenceOnlyByPersistFailure ==
    (pc = "idle" /\ ~Lagged) =>
        /\ namecheap_addr = state_addr
        /\ Deserialize(file.data) = namecheap_addr

\* a tick boundary after failed resolves, failed and successful updates,
\* with a changed belief that agrees with the disk
C20_Witness ==
    /\ pc = "idle"
    /\ ~Lagged
    /\ tick.upd = "Ok" /\ tick.persist = "Ok"
    /\ tick.prevUpd \in UpdateErrs
    /\ tick.belief0 \in Addrs
    /\ namecheap_addr = state_addr

====
